---- MODULE Spec2Model ----
(***************************************************************************)
(* Model of the lovacar repository core: the MongoDB listing repository    *)
(* (database/mongo_database.py), the pipeline stages of main.py and the    *)
(* offer calculator (price_engine/offer_calculator.py).                    *)
(*                                                                         *)
(* A Python dict (an incoming listing, a persisted document) is a function *)
(* from Keys to cells.  A cell [t, n, d] is: t = 0 the key is not in the   *)
(* dict, t = 1 the value None, t = 2 the number n / d (False is 0, True is *)
(* 1, as in Python; timestamps, urls and ObjectIds are numbers too).       *)
(***************************************************************************)
EXTENDS Integers, Sequences, FiniteSets, TLC

\* ------------------------------------------------------------- bounds
\* Calls made one after the other in the sequential specification.
MaxCalls == 3
\* Calls of the targeted updates made while store_listings calls are running.
MaxUpdates == 2
\* Listing containers in the HTML of one mail.
MaxContainers == 3
\* Mails in the account.
MaxMails == 2
\* Records in the repository when estimate_car_values is run again and again.
MaxRecords == 6
\* Records without a price in the repository when calculate_offers is run
\* again and again.
MaxUnpriced == 50
\* Records with a price that follow them.
MaxPriced == 2

\* ------------------------------------------------------------- values
Absent == [t |-> 0, n |-> 0, d |-> 1]
Null == [t |-> 1, n |-> 0, d |-> 1]
Num(x) == [t |-> 2, n |-> x, d |-> 1]
PyFalse == Num(0)
PyTrue == Num(1)

\* Python truthiness of dict.get(key): None (or a missing key), 0, 0.0 and
\* False are falsy.
Truthy(c) == c.t = 2 /\ c.n # 0

\* dict.get(key): None when the key is missing.
Get(c) == IF c.t = 0 THEN Null ELSE c

\* "null" in the sense of the data model: no value.
IsNull(c) == c.t # 2

RawKeys == {"url", "price", "make", "model"}
StickyKeys == {"estimated_value", "suggested_offer", "discount_percentage", "contacted"}
Keys == RawKeys \cup StickyKeys \cup {"id", "visited", "created_at", "updated_at", "contact_date"}

EmptyDict == [k \in Keys |-> Absent]

\* An ObjectId that insert_one generated for an insert that failed: the id of
\* no document.
OrphanId == Num(0)

\* A make or a model: a str that is not empty, as a number.
SomeName == Num(1)

\* Listing with the computed keys initialised to None by the extractor.
ListingWithNulls(u, p) ==
    [k \in Keys |-> IF k = "url" THEN u ELSE IF k = "price" THEN p
                    ELSE IF k \in {"make", "model"} THEN SomeName
                    ELSE IF k \in StickyKeys \ {"contacted"} THEN Null ELSE Absent]

\* The listing dict built by the extractor from a title of two tokens or
\* more: raw keys only.
Listing(u, p) ==
    [EmptyDict EXCEPT !["url"] = u, !["price"] = p, !["make"] = SomeName, !["model"] = SomeName]

\* The estimator's avg_price.
AVG_PRICE == 10000

UrlVals == {Num(1), Num(2)}
PriceVals == {Num(9000), Num(12000)}

\* What the extractor yields: one listing seen at two prices, and another one.
FreshListings == {Listing(Num(1), Num(9000)), Listing(Num(1), Num(12000)), Listing(Num(2), Num(9000))}

\* Values update_listing_estimation is called with.
EstimateVals == {Num(0), Num(AVG_PRICE)}

\* Dicts of a caller that already hold computed keys.
CallerListings ==
    {[Listing(Num(1), Num(9000)) EXCEPT !["estimated_value"] = Num(AVG_PRICE)],
     [Listing(Num(1), Num(9000)) EXCEPT !["contacted"] = PyTrue],
     [Listing(Num(1), Num(9000)) EXCEPT !["visited"] = PyTrue]}

\* The lists store_listings is called with: one or two extracted listings, or
\* one dict of a caller.
FreshBatches == {<<a>> : a \in FreshListings} \cup {<<a, b>> : a, b \in FreshListings}
CallerBatches == {<<a>> : a \in CallerListings}

\* ------------------------------------------------------------- state
VARIABLES
    db,       \* the listings collection: documents in insertion order
    now,      \* datetime.now(), a logical clock
    held,     \* the first dict of the list passed to the last store_listings call, as mutated by it
    ret,      \* what the last call returned
    lastOp,   \* the last call
    procs,    \* the runs of main.py: where each is and its local variables
    found,    \* the list the last query or the last extraction returned
    markup,   \* the HTML of a mail: its listing containers, in document order
    elemText, \* the text of an element of a container: a price, a details line, a title
    mailbox   \* the AutoScout24 mails of the Gmail account: unread or not, and their HTML

vars == <<db, now, held, ret, lastOp, procs, found, markup, elemText, mailbox>>

\* ------------------------------------------------------------- storage primitives
\* A query value None matches a missing key as well as a null value.
Matches(c, q) == IF q.t = 1 THEN c.t \in {0, 1} ELSE c = q

\* find_one returning None.
NoDoc == EmptyDict

\* FindOne with a filter that selects on no key: the first document, if any.
FindOneAny(d, u) == IF Len(d) > 0 THEN d[1] ELSE NoDoc

\* find_one({'url': u}): the first matching document, or None.
FindOne(d, u) ==
    IF \E i \in 1..Len(d) : Matches(d[i]["url"], u)
    THEN d[CHOOSE i \in 1..Len(d) : /\ Matches(d[i]["url"], u)
                                    /\ \A j \in 1..(i - 1) : ~Matches(d[j]["url"], u)]
    ELSE NoDoc

\* {'$set': fields}: every key of fields is written, the others are kept.
SetFields(doc, fields) == [k \in Keys |-> IF fields[k].t # 0 THEN fields[k] ELSE doc[k]]

\* update_one raises when $set would change the immutable _id.
UpdateRaises(doc, fields) == fields["id"].t # 0 /\ fields["id"] # doc["id"]

\* DuplicateKey without the unique indexes.
NoUniqueIndex(d, doc) == FALSE

\* The unique index on url (and the one on _id): insert_one raises
\* DuplicateKeyError when a document with the same key exists.
DuplicateKey(d, doc) ==
    \E i \in 1..Len(d) : \/ Matches(d[i]["url"], Get(doc["url"]))
                         \/ d[i]["id"] = doc["id"]

\* ------------------------------------------------------------- targeted updates
\* UpdateById with a filter that selects every document.
UpdateEvery(d, id, fields) == [i \in 1..Len(d) |-> SetFields(d[i], fields)]

\* update_one({'_id': id}, {'$set': fields}) on the collection.
UpdateById(d, id, fields) ==
    [i \in 1..Len(d) |-> IF d[i]["id"] = id THEN SetFields(d[i], fields) ELSE d[i]]

UpdateListingEstimation(d, id, value, t) ==
    UpdateById(d, id, [EmptyDict EXCEPT !["estimated_value"] = value, !["updated_at"] = Num(t)])

UpdateListingOffer(d, id, offer, t) ==
    UpdateById(d, id, [EmptyDict EXCEPT !["suggested_offer"] = offer.suggested_offer,
                                        !["discount_percentage"] = offer.discount_percentage,
                                        !["updated_at"] = Num(t)])

MarkAsContacted(d, id, t) ==
    UpdateById(d, id, [EmptyDict EXCEPT !["contacted"] = PyTrue, !["contact_date"] = Num(t)])

\* ------------------------------------------------------------- store_listings
\* MergeListing with created_at stamped in the update branch too.
MergeListingRestamping(existing, listing, t) ==
    [k \in Keys |->
        IF k \in {"updated_at", "created_at"} THEN Num(t)
        ELSE IF k \in StickyKeys /\ Truthy(Get(existing[k])) THEN Get(existing[k])
        ELSE listing[k]]

\* The update branch's changes to the incoming dict.
MergeListing(existing, listing, t) ==
    [k \in Keys |->
        IF k = "updated_at" THEN Num(t)
        ELSE IF k \in StickyKeys /\ Truthy(Get(existing[k])) THEN Get(existing[k])
        ELSE listing[k]]

\* InsertPrep without the two flags.
InsertPrepNoFlags(listing, t) ==
    [listing EXCEPT !["created_at"] = Num(t), !["updated_at"] = Num(t)]

\* The insert branch's changes to the incoming dict.
InsertPrep(listing, t) ==
    [listing EXCEPT !["created_at"] = Num(t), !["updated_at"] = Num(t),
                    !["contacted"] = PyFalse, !["visited"] = PyFalse]

\* insert_one gives the dict an _id when it has none, before it is sent.
WithId(doc, d) == IF doc["id"].t = 0 THEN [doc EXCEPT !["id"] = Num(Len(d) + 1)] ELSE doc

\* The loop body after find_one returned existing (a document or None), run
\* against the collection d as it is now.  out is "updated", "inserted",
\* "duplicate" (DuplicateKeyError) or "error" (any other exception).
StoreWrite(d, existing, listing, t) ==
    IF existing # NoDoc
    THEN LET l2 == MergeListing(existing, listing, t) IN
         IF UpdateRaises(existing, l2)
         THEN [db |-> d, listing |-> l2, out |-> "error"]
         ELSE [db |-> UpdateById(d, existing["id"], l2), listing |-> l2, out |-> "updated"]
    ELSE LET l2 == WithId(InsertPrep(listing, t), d) IN
         IF DuplicateKey(d, l2)
         THEN [db |-> d,
               listing |-> [l2 EXCEPT !["id"] = IF listing["id"].t = 0 THEN OrphanId ELSE @],
               out |-> "duplicate"]
         ELSE [db |-> Append(d, l2), listing |-> l2, out |-> "inserted"]

Count(out, what) == IF out = what THEN 1 ELSE 0

\* Caught without the except clause for DuplicateKeyError and the one after it.
CaughtNothing(out) == FALSE

\* The except clauses of the loop: the exception is logged and the loop goes on.
Caught(out) == out \in {"duplicate", "error"}

\* store_listings run without interruption from listing i on.
RECURSIVE StoreFrom(_, _, _)
StoreFrom(st, i, t) ==
    IF i > Len(st.batch) THEN st
    ELSE LET w == StoreWrite(st.db, FindOne(st.db, Get(st.batch[i]["url"])), st.batch[i], t) IN
         StoreFrom([db |-> w.db,
                    batch |-> [st.batch EXCEPT ![i] = w.listing],
                    nb_inserts |-> st.nb_inserts + Count(w.out, "inserted"),
                    nb_updates |-> st.nb_updates + Count(w.out, "updated")],
                   i + 1, t)

StoreListings(d, batch, t) ==
    StoreFrom([db |-> d, batch |-> batch, nb_inserts |-> 0, nb_updates |-> 0], 1, t)

\* ------------------------------------------------------------- offer calculator
MIN_DISCOUNT_PERCENTAGE == 10
MAX_DISCOUNT_PERCENTAGE == 20

Min(a, b) == IF a <= b THEN a ELSE b
Max(a, b) == IF a >= b THEN a ELSE b
Abs(x) == IF x < 0 THEN -x ELSE x

RECURSIVE Gcd(_, _)
Gcd(a, b) == IF b = 0 THEN a ELSE Gcd(b, a % b)

\* The number n / d (d # 0) as a cell, in lowest terms.
Rat(n, d) ==
    LET g == Gcd(Abs(n), Abs(d))
        s == IF d < 0 THEN -1 ELSE 1
    IN [t |-> 2, n |-> (s * n) \div g, d |-> (s * d) \div g]

\* Trunc rounding away from zero.
TruncUp(n, d) ==
    IF (n >= 0) = (d > 0) THEN (Abs(n) + Abs(d) - 1) \div Abs(d) ELSE -((Abs(n) + Abs(d) - 1) \div Abs(d))

\* int(n / d): truncation toward zero.
Trunc(n, d) == IF (n >= 0) = (d > 0) THEN Abs(n) \div Abs(d) ELSE -(Abs(n) \div Abs(d))

\* position_percentage > k, for position_percentage = (p - e) / e * 100.
PositionAbove(p, e, k) == IF e > 0 THEN (p - e) * 100 > k * e ELSE (p - e) * 100 < k * e

NullOffer ==
    [suggested_offer |-> Null, discount_amount |-> Null, discount_percentage |-> Null,
     market_position |-> Null, strategy |-> "Pas assez d'informations"]

\* calculate_market_position(p, e) for numbers p and e other than 0.
MarketPosition(p, e) ==
    [relative_position |-> p - e,
     is_overpriced |-> PositionAbove(p, e, 5),
     is_underpriced |-> ~PositionAbove(p, e, -5) /\ (p - e) * 100 # -5 * e,
     position_percentage |-> Rat((p - e) * 100, e)]

\* The tier of a position: its strategy and its discount percentage.
Tier(p, e) ==
    IF PositionAbove(p, e, 15)
    THEN [strategy |-> "Forte remise", pct |-> Min(25, MAX_DISCOUNT_PERCENTAGE)]
    ELSE IF PositionAbove(p, e, 5)
    THEN [strategy |-> "Remise moyenne", pct |-> Min(15, MAX_DISCOUNT_PERCENTAGE)]
    ELSE IF PositionAbove(p, e, -5)
    THEN [strategy |-> "Remise standard", pct |-> MIN_DISCOUNT_PERCENTAGE]
    ELSE [strategy |-> "Remise minimale", pct |-> Max(5, MIN_DISCOUNT_PERCENTAGE \div 2)]

\* CalculateOffer without the comparison with min_acceptable_offer.
CalculateOfferUnclamped(price, value) ==
    IF ~Truthy(price) \/ ~Truthy(value) THEN NullOffer
    ELSE LET p == price.n
             e == value.n
             tier == Tier(p, e)
             amount == Trunc(p * tier.pct, 100)
         IN [suggested_offer |-> Num(p - amount), discount_amount |-> Num(amount),
             discount_percentage |-> Num(tier.pct),
             market_position |-> MarketPosition(p, e), strategy |-> tier.strategy]

\* calculate_offer(listing_price, estimated_value), both cells holding None or
\* a whole number.
CalculateOffer(price, value) ==
    IF ~Truthy(price) \/ ~Truthy(value) THEN NullOffer
    ELSE LET p == price.n
             e == value.n
             tier == Tier(p, e)
             amount == Trunc(p * tier.pct, 100)
             offer == p - amount
             min_acceptable_offer == Trunc(e * 9, 10)
         IN IF offer < min_acceptable_offer
            THEN [suggested_offer |-> Num(min_acceptable_offer),
                  discount_amount |-> Num(p - min_acceptable_offer),
                  discount_percentage |-> Rat((p - min_acceptable_offer) * 100, p),
                  market_position |-> MarketPosition(p, e), strategy |-> tier.strategy]
            ELSE [suggested_offer |-> Num(offer), discount_amount |-> Num(amount),
                  discount_percentage |-> Num(tier.pct),
                  market_position |-> MarketPosition(p, e), strategy |-> tier.strategy]

\* ------------------------------------------------------------- sequential calls
Returned(ins, upd, ok) == [nb_inserts |-> ins, nb_updates |-> upd, ok |-> ok]

\* modified_count > 0: a document has the id.
Modified(d, id) == \E i \in 1..Len(d) : d[i]["id"] = id

Procs == {1, 2}

\* A run of main.py that has not started.
Idle ==
    [pc |-> "idle", pipeline |-> FALSE, batch |-> <<>>, idx |-> 0, existing |-> NoDoc,
     nb_inserts |-> 0, nb_updates |-> 0, out |-> "none", todo |-> <<>>, pos |-> 0]

Init ==
    /\ db = <<>>
    /\ now = 0
    /\ held = EmptyDict
    /\ ret = Returned(0, 0, FALSE)
    /\ lastOp = "none"
    /\ procs = [p \in Procs |-> Idle]
    /\ found = <<>>
    /\ markup = <<>>
    /\ elemText = <<>>
    /\ mailbox = <<>>

DocIds == {db[i]["id"] : i \in 1..Len(db)}

\* db.store_listings(batch), the whole call.
CallStore(batch, op) ==
    LET r == StoreListings(db, batch, now) IN
    /\ now < MaxCalls
    /\ db' = r.db
    /\ held' = r.batch[1]
    /\ ret' = Returned(r.nb_inserts, r.nb_updates, TRUE)
    /\ now' = now + 1
    /\ lastOp' = op
    /\ UNCHANGED <<procs, found, markup, elemText, mailbox>>

StoreFresh == \E batch \in FreshBatches : CallStore(batch, "fresh")
StoreCaller == \E batch \in CallerBatches : CallStore(batch, "caller")
\* A dict of the previous call passed again.
StoreHeld == held # EmptyDict /\ CallStore(<<held>>, "held")

DoUpdateEstimation(id, v) ==
    /\ db' = UpdateListingEstimation(db, id, v, now)
    /\ ret' = Returned(0, 0, Modified(db, id))
    /\ now' = now + 1
    /\ lastOp' = "estimation"
    /\ UNCHANGED <<held, procs, found, markup, elemText, mailbox>>

\* update_listing_offer with the offer calculate_offers computes for document i.
DoUpdateOffer(i) ==
    LET offer == CalculateOffer(Get(db[i]["price"]), Get(db[i]["estimated_value"])) IN
    /\ Truthy(offer.suggested_offer)
    /\ db' = UpdateListingOffer(db, db[i]["id"], offer, now)
    /\ ret' = Returned(0, 0, TRUE)
    /\ now' = now + 1
    /\ lastOp' = "offer"
    /\ UNCHANGED <<held, procs, found, markup, elemText, mailbox>>

DoMarkAsContacted(id) ==
    /\ db' = MarkAsContacted(db, id, now)
    /\ ret' = Returned(0, 0, Modified(db, id))
    /\ now' = now + 1
    /\ lastOp' = "contacted"
    /\ UNCHANGED <<held, procs, found, markup, elemText, mailbox>>

CallUpdateEstimation ==
    now < MaxCalls /\ \E id \in DocIds, v \in EstimateVals : DoUpdateEstimation(id, v)

CallUpdateOffer == now < MaxCalls /\ \E i \in 1..Len(db) : DoUpdateOffer(i)

CallMarkAsContacted == now < MaxCalls /\ \E id \in DocIds : DoMarkAsContacted(id)

NextSeq ==
    \/ StoreFresh
    \/ StoreCaller
    \/ StoreHeld
    \/ CallUpdateEstimation
    \/ CallUpdateOffer
    \/ CallMarkAsContacted

SpecSeq == Init /\ [][NextSeq]_vars

\* ------------------------------------------------------------- concurrent runs
\* The limits main.py passes to the two queries.
ESTIMATES_LIMIT == 5
UNPROCESSED_LIMIT == 50

\* The first n elements of a sequence.
Take(q, n) == SubSeq(q, 1, Min(n, Len(q)))

\* {'estimated_value': {'$exists': False}}
Unestimated(doc) == doc["estimated_value"].t = 0
GetUnestimatedListings(d, limit) == Take(SelectSeq(d, Unestimated), limit)

\* Unprocessed without the condition on estimated_value.
UnprocessedAnyEstimate(doc) == doc["suggested_offer"].t = 0

\* {'estimated_value': {'$exists': True, '$ne': None}, 'suggested_offer': {'$exists': False}}
Unprocessed(doc) == doc["estimated_value"].t = 2 /\ doc["suggested_offer"].t = 0
GetUnprocessedListings(d, limit) == Take(SelectSeq(d, Unprocessed), limit)

Set(p, r) == procs' = [procs EXCEPT ![p] = r]

\* main.py started: --scrape alone, or --scrape --estimate --calculate as
\* the webhook starts it; scrape_emails calls store_listings with the batch.
Start(p, batch, pipeline) ==
    /\ procs[p].pc = "idle"
    /\ \A q \in Procs : q < p => procs[q].pc # "idle"
    /\ Set(p, [Idle EXCEPT !.pc = "find", !.pipeline = pipeline, !.batch = batch, !.idx = 1])
    /\ now' = now + 1
    /\ UNCHANGED <<db, held, ret, lastOp, found, markup, elemText, mailbox>>

\* find_one for the current listing.
Find(p) ==
    LET me == procs[p] IN
    /\ me.pc = "find"
    /\ Set(p, [me EXCEPT !.pc = "write",
                         !.existing = FindOne(db, Get(me.batch[me.idx]["url"]))])
    /\ UNCHANGED <<db, now, held, ret, lastOp, found, markup, elemText, mailbox>>

\* Where the run goes after store_listings, estimate_car_values and calculate_offers.
AfterStore(me) == IF me.pipeline THEN "est_fetch" ELSE "done"

\* The rest of the loop body: the update or the insert, and the except clauses.
Write(p) ==
    LET me == procs[p]
        w == StoreWrite(db, me.existing, me.batch[me.idx], now)
    IN /\ me.pc = "write"
       /\ db' = w.db
       /\ Set(p, [me EXCEPT
                 !.pc = IF w.out \in {"updated", "inserted"} \/ Caught(w.out)
                        THEN (IF me.idx = Len(me.batch) THEN "return" ELSE "find")
                        ELSE "raised",
                 !.batch[me.idx] = w.listing,
                 !.idx = me.idx + 1,
                 !.existing = NoDoc,
                 !.out = w.out,
                 !.nb_inserts = me.nb_inserts + Count(w.out, "inserted"),
                 !.nb_updates = me.nb_updates + Count(w.out, "updated")])
       /\ UNCHANGED <<now, held, ret, lastOp, found, markup, elemText, mailbox>>

\* store_listings returns its counts.
Return(p) ==
    LET me == procs[p] IN
    /\ me.pc = "return"
    /\ Set(p, [me EXCEPT !.pc = AfterStore(me)])
    /\ UNCHANGED <<db, now, held, ret, lastOp, found, markup, elemText, mailbox>>

\* estimate_car_values: the query.
EstFetch(p) ==
    LET me == procs[p]
        listings == GetUnestimatedListings(db, ESTIMATES_LIMIT)
    IN /\ me.pc = "est_fetch"
       /\ Set(p, [me EXCEPT !.pc = IF listings = <<>> THEN "calc_fetch" ELSE "est_item",
                            !.todo = listings, !.pos = 1])
       /\ UNCHANGED <<db, now, held, ret, lastOp, found, markup, elemText, mailbox>>

\* `if not make or not model` is false for the listing.
HasMakeModel(listing) == Truthy(Get(listing["make"])) /\ Truthy(Get(listing["model"]))

\* estimate_car_values: one listing, skipped without make or model; the
\* estimator succeeds with avg_price or returns an error result.
EstItem(p, success) ==
    LET me == procs[p] IN
    /\ me.pc = "est_item"
    /\ db' = IF success /\ HasMakeModel(me.todo[me.pos])
             THEN UpdateListingEstimation(db, me.todo[me.pos]["id"], Num(AVG_PRICE), now)
             ELSE db
    /\ Set(p, [me EXCEPT !.pc = IF me.pos = Len(me.todo) THEN "calc_fetch" ELSE "est_item",
                         !.pos = me.pos + 1])
    /\ UNCHANGED <<now, held, ret, lastOp, found, markup, elemText, mailbox>>

\* estimate_car_values: one listing for which estimate_car_value returns None (no
\* browser driver): the else branch calls estimation.get on None, the
\* AttributeError leaves the loop and the function, and main stops.
EstNothing(p) ==
    LET me == procs[p] IN
    /\ me.pc = "est_item"
    /\ HasMakeModel(me.todo[me.pos])
    /\ Set(p, [me EXCEPT !.pc = "raised"])
    /\ UNCHANGED <<db, now, held, ret, lastOp, found, markup, elemText, mailbox>>

\* calculate_offers: the query.
CalcFetch(p) ==
    LET me == procs[p]
        listings == GetUnprocessedListings(db, UNPROCESSED_LIMIT)
    IN /\ me.pc = "calc_fetch"
       /\ Set(p, [me EXCEPT !.pc = IF listings = <<>> THEN "done" ELSE "calc_item",
                            !.todo = listings, !.pos = 1])
       /\ UNCHANGED <<db, now, held, ret, lastOp, found, markup, elemText, mailbox>>

\* calculate_offers: one listing, from the price and the estimate the query returned.
CalcItem(p) ==
    LET me == procs[p]
        listing == me.todo[me.pos]
        offer == CalculateOffer(Get(listing["price"]), Get(listing["estimated_value"]))
    IN /\ me.pc = "calc_item"
       /\ db' = IF Truthy(offer.suggested_offer)
                THEN UpdateListingOffer(db, listing["id"], offer, now)
                ELSE db
       /\ Set(p, [me EXCEPT !.pc = IF me.pos = Len(me.todo) THEN "done" ELSE "calc_item",
                            !.pos = me.pos + 1,
                            !.todo = IF me.pos = Len(me.todo) THEN <<>> ELSE @])
       /\ UNCHANGED <<now, held, ret, lastOp, found, markup, elemText, mailbox>>

Started == {p \in Procs : procs[p].pc # "idle"}

\* The targeted updates called so far while runs are going on.
UpdatesDone == now - Cardinality(Started)

ConcUpdateEstimation ==
    UpdatesDone < MaxUpdates /\ \E id \in DocIds, v \in EstimateVals : DoUpdateEstimation(id, v)

ConcUpdateOffer == UpdatesDone < MaxUpdates /\ \E i \in 1..Len(db) : DoUpdateOffer(i)

ConcMarkAsContacted == UpdatesDone < MaxUpdates /\ \E id \in DocIds : DoMarkAsContacted(id)

\* Batches of one listing.
PipelineBatches == {<<a>> : a \in FreshListings}

\* Runs of main.py --scrape at the same time.
NextConc ==
    \/ \E p \in Procs, batch \in FreshBatches : Start(p, batch, FALSE)
    \/ \E p \in Procs : Find(p)
    \/ \E p \in Procs : Write(p)
    \/ \E p \in Procs : Return(p)

SpecConc == Init /\ [][NextConc]_vars

\* Runs of main.py --scrape with one listing, next to the targeted updates.
NextRace ==
    \/ \E p \in Procs, batch \in PipelineBatches : Start(p, batch, FALSE)
    \/ \E p \in Procs : Find(p)
    \/ \E p \in Procs : Write(p)
    \/ \E p \in Procs : Return(p)
    \/ ConcUpdateEstimation
    \/ ConcUpdateOffer
    \/ ConcMarkAsContacted

SpecRace == Init /\ [][NextRace]_vars

\* Runs of main.py --scrape --estimate --calculate, as gmail_webhook starts them.
\* What a mail holds in the runs of the pipeline: one listing, among them one
\* priced below 90 % of the estimate.
MailBatches == PipelineBatches \cup {<<Listing(Num(2), Num(8000))>>}

NextPipe ==
    \/ \E p \in Procs, batch \in MailBatches : Start(p, batch, TRUE)
    \/ \E p \in Procs : Find(p)
    \/ \E p \in Procs : Write(p)
    \/ \E p \in Procs : Return(p)
    \/ \E p \in Procs : EstFetch(p)
    \/ \E p \in Procs, success \in BOOLEAN : EstItem(p, success)
    \/ \E p \in Procs : EstNothing(p)
    \/ \E p \in Procs : CalcFetch(p)
    \/ \E p \in Procs : CalcItem(p)

SpecPipe == Init /\ [][NextPipe]_vars

\* ------------------------------------------------------------- sequential claims
StoreOps == {"fresh", "caller", "held"}

\* Every list the sequential specification can pass to store_listings now.
StoreBatches == FreshBatches \cup CallerBatches \cup {<<held>>}

UrlsOf(batch) == {Get(batch[j]["url"]) : j \in 1..Len(batch)}

\* The last dict of the batch with url u.
LastIncoming(batch, u) ==
    batch[CHOOSE j \in 1..Len(batch) :
            /\ Matches(u, Get(batch[j]["url"]))
            /\ \A m \in (j + 1)..Len(batch) : ~Matches(u, Get(batch[m]["url"]))]

\* C1: once estimated_value holds a value, a store_listings call with freshly
\* extracted listings leaves it as it is, for every persisted record.
C1_StickyMonotonicity ==
    [][lastOp' = "fresh" =>
          \A i \in 1..Len(db) :
              ~IsNull(Get(db[i]["estimated_value"]))
                  => db'[i]["estimated_value"] = db[i]["estimated_value"]]_vars

\* A record with an estimate was re-ingested by the last call, a fresh store.
C1_Witness ==
    /\ lastOp = "fresh"
    /\ \E i \in 1..Len(db) :
           /\ ~IsNull(db[i]["estimated_value"])
           /\ db[i]["updated_at"] = Num(now - 1)
           /\ db[i]["created_at"] # db[i]["updated_at"]

\* C2: a store_listings call that finds a record for an incoming url keeps
\* every non-null sticky value of the record (0 and False included), whatever
\* the incoming dict holds, and gives the raw fields the incoming values.
C2_StickyMerge ==
    [][\A op \in StoreOps, batch \in StoreBatches :
          CallStore(batch, op) =>
              \A i \in 1..Len(db) :
                  Get(db[i]["url"]) \in UrlsOf(batch) =>
                      /\ \A k \in StickyKeys :
                             ~IsNull(Get(db[i][k])) => db'[i][k] = db[i][k]
                      /\ \A k \in RawKeys :
                             db'[i][k] = LastIncoming(batch, Get(db[i]["url"]))[k]]_vars

\* C3: store_listings changes neither contacted nor visited of a persisted
\* record, and contacted changes through mark_as_contacted only.
C3_FlagsUntouched ==
    [][\A i \in 1..Len(db) :
          /\ lastOp' # "contacted" => db'[i]["contacted"] = db[i]["contacted"]
          /\ lastOp' \in StoreOps => db'[i]["visited"] = db[i]["visited"]]_vars

SameButUpdatedAt(d1, d2) ==
    /\ Len(d1) = Len(d2)
    /\ \A i \in 1..Len(d1) : \A k \in Keys \ {"updated_at"} : d1[i][k] = d2[i][k]

\* C4: storing a raw record a second time (an equal dict, or the same dict as
\* the first call left it) leaves the collection as the first call left it,
\* updated_at aside.
C4_IdempotentReingestion ==
    \A l \in FreshListings :
        LET once == StoreListings(db, <<l>>, now)
            again == StoreListings(once.db, <<l>>, now + 1)
            same == StoreListings(once.db, once.batch, now + 1)
        IN /\ SameButUpdatedAt(again.db, once.db)
           /\ SameButUpdatedAt(same.db, once.db)

\* The dict of the previous call was stored again, onto a record with computed
\* values.
C4_Witness ==
    /\ lastOp = "held"
    /\ ret = Returned(0, 1, TRUE)
    /\ \E i \in 1..Len(db) :
           /\ db[i]["id"] = held["id"]
           /\ db[i]["created_at"] # db[i]["updated_at"]
           /\ Truthy(db[i]["estimated_value"])

\* A document without its _id and its timestamps.
Strip(doc) ==
    [doc EXCEPT !["id"] = Absent, !["created_at"] = Absent, !["updated_at"] = Absent]

Persisted(d) == {Strip(d[i]) : i \in 1..Len(d)}

\* C9: two batches with disjoint urls stored in either order, and a batch of
\* two distinct urls in either order, give the same documents (_id and
\* timestamps aside).
C9_DistinctKeysCommute ==
    /\ \A A, B \in FreshBatches :
           (UrlsOf(A) = {Num(1)} /\ UrlsOf(B) = {Num(2)}) =>
               Persisted(StoreListings(StoreListings(db, A, now).db, B, now + 1).db)
                   = Persisted(StoreListings(StoreListings(db, B, now).db, A, now + 1).db)
    /\ \A a, b \in FreshListings :
           (a["url"] = Num(1) /\ b["url"] = Num(2)) =>
               Persisted(StoreListings(db, <<a, b>>, now).db)
                   = Persisted(StoreListings(db, <<b, a>>, now).db)

\* Two listings with different urls were stored by the last call, one of them
\* onto its record.
C9_Witness ==
    /\ lastOp = "fresh"
    /\ ret = Returned(1, 1, TRUE)
    /\ Len(db) = 2
    /\ db[1]["updated_at"] = db[2]["created_at"]
    /\ db[1]["created_at"] # db[2]["created_at"]

\* C10: from every state, a store_listings call inserts one record, with both
\* flags False, for every url of the batch that is not persisted and counts it
\* in nb_inserts; every other dict of the batch is counted in nb_updates and
\* creates nothing.
C10_Classification ==
    \A batch \in StoreBatches \ {<<EmptyDict>>} :
        LET r == StoreListings(db, batch, now)
            fresh == {u \in UrlsOf(batch) : FindOne(db, u) = NoDoc}
        IN /\ r.nb_inserts = Cardinality(fresh)
           /\ r.nb_updates = Len(batch) - Cardinality(fresh)
           /\ r.nb_inserts + r.nb_updates = Len(batch)
           /\ Len(r.db) = Len(db) + Cardinality(fresh)
           /\ \A i \in 1..Len(db) : r.db[i]["url"] = db[i]["url"]
           /\ \A i \in (Len(db) + 1)..Len(r.db) :
                  /\ Get(r.db[i]["url"]) \in fresh
                  /\ r.db[i]["contacted"] = PyFalse
                  /\ r.db[i]["visited"] = PyFalse
           /\ \A i, j \in 1..Len(r.db) : i # j => r.db[i]["url"] # r.db[j]["url"]

\* The first call stored one url twice: one insert, one update.
C10_Witness ==
    /\ lastOp = "fresh"
    /\ now = 1
    /\ ret = Returned(1, 1, TRUE)
    /\ Len(db) = 1

\* ------------------------------------------------------------- concurrency claims
\* C5: no two persisted records have the same url.
C5_KeyUniqueness ==
    \A i, j \in 1..Len(db) : i # j => ~Matches(db[i]["url"], Get(db[j]["url"]))

\* One run lost the insert of a url to the other run, which stored a batch
\* holding one url twice.
C5_Witness ==
    \E p, q \in Procs :
        /\ p # q
        /\ procs[p].out = "duplicate"
        /\ procs[q].pc = "done"
        /\ Len(procs[q].batch) = 2
        /\ procs[q].batch[1]["url"] = procs[q].batch[2]["url"]
        /\ procs[q].batch[1]["url"] = procs[p].batch[1]["url"]

\* C6: a run whose insert fails with DuplicateKeyError changes nothing, raises
\* nothing, goes on with the next listing of its batch and returns; one record
\* holds the url.
C6_DuplicateKeyRace ==
    [][\A p \in Procs :
          /\ procs'[p].pc # "raised"
          /\ procs'[p].pc = "done" => procs'[p].idx = Len(procs'[p].batch) + 1
          /\ (procs[p].pc = "write" /\ procs'[p].pc # "write" /\ procs'[p].out = "duplicate") =>
                 /\ db' = db
                 /\ procs'[p].idx = procs[p].idx + 1
                 /\ procs'[p].pc = IF procs[p].idx = Len(procs[p].batch) THEN "return" ELSE "find"
                 /\ procs'[p].nb_inserts = procs[p].nb_inserts
                 /\ procs'[p].nb_updates = procs[p].nb_updates
                 /\ Cardinality({i \in 1..Len(db') :
                        Matches(db'[i]["url"], Get(procs[p].batch[procs[p].idx]["url"]))}) = 1]_vars

\* A run lost the insert of its first listing, stored its second one and returned.
C6_Witness ==
    \E p \in Procs :
        /\ procs[p].pc = "done"
        /\ Len(procs[p].batch) = 2
        /\ procs[p].batch[1]["id"] = OrphanId
        /\ procs[p].nb_inserts + procs[p].nb_updates = 1

\* C7: the update or insert of a running store_listings never changes a sticky
\* value that a record holds.
C7_NoStaleWriteBack ==
    [][\A p \in Procs :
          (procs[p].pc = "write" /\ procs'[p].pc # "write") =>
              \A i \in 1..Len(db) : \A k \in StickyKeys :
                  ~IsNull(Get(db[i][k])) => db'[i][k] = db[i][k]]_vars

DocById(d, id) == d[CHOOSE i \in 1..Len(d) : d[i]["id"] = id]

\* C8: the pipeline writes an estimate only to a record that has none, and an
\* offer only to a record that has none; a value, once there, stays.
C8_SetOnce ==
    [][/\ \A p \in Procs :
              /\ EstItem(p, TRUE) =>
                     IsNull(Get(DocById(db, procs[p].todo[procs[p].pos]["id"])["estimated_value"]))
              /\ (CalcItem(p) /\ db' # db) =>
                     /\ IsNull(Get(DocById(db, procs[p].todo[procs[p].pos]["id"])["suggested_offer"]))
                     /\ IsNull(Get(DocById(db, procs[p].todo[procs[p].pos]["id"])["discount_percentage"]))
       /\ \A i \in 1..Len(db) : \A k \in {"estimated_value", "suggested_offer", "discount_percentage"} :
              ~IsNull(Get(db[i][k])) => db'[i][k] = db[i][k]]_vars

\* ------------------------------------------------------------- repository calls of any client
\* The dict of a listing that already has its estimate and the offer computed from it.
PricedListing(u, p) ==
    LET offer == CalculateOffer(p, Num(AVG_PRICE)) IN
    [Listing(u, p) EXCEPT !["estimated_value"] = Num(AVG_PRICE),
                          !["suggested_offer"] = offer.suggested_offer,
                          !["discount_percentage"] = offer.discount_percentage]

\* The dict of a listing whose computed keys are present and hold None.
NulledListing(u, p) ==
    [Listing(u, p) EXCEPT !["estimated_value"] = Null, !["suggested_offer"] = Null,
                          !["discount_percentage"] = Null]

\* The dict of a listing as a store of it leaves the dict: with the flags of the insert branch.
StoredListing(u, p) == [Listing(u, p) EXCEPT !["contacted"] = PyFalse, !["visited"] = PyFalse]

RepoBatches ==
    {<<Listing(Num(1), Num(12000))>>,
     <<StoredListing(Num(1), Num(12000))>>,
     <<Listing(Num(1), Num(12000)), Listing(Num(2), Num(9000))>>,
     <<NulledListing(Num(1), Num(12000)), Listing(Num(2), Num(9000))>>,
     <<PricedListing(Num(2), Num(9000)), PricedListing(Num(1), Num(12000))>>}

\* Values and offers the targeted updates are called with.
RepoEstimateVals == {Null, Num(AVG_PRICE)}
RepoOffers == {CalculateOffer(Num(12000), Num(AVG_PRICE)), NullOffer}

\* Arguments of the queries.
Limits == {1, 2}
MinDiscounts == {0, 10}

\* discount_percentage >= m ($gte compares numbers only).
CellGte(c, m) == c.t = 2 /\ c.n >= m * c.d
\* a < b, for two numbers.
CellLess(a, b) == a.n * b.d < b.n * a.d

\* IsDeal without the condition on contacted.
IsDealContactedToo(doc, min_discount) == CellGte(doc["discount_percentage"], min_discount)

\* {'discount_percentage': {'$gte': min_discount}, 'contacted': False}
IsDeal(doc, min_discount) == CellGte(doc["discount_percentage"], min_discount) /\ doc["contacted"] = PyFalse

\* sort([('discount_percentage', DESCENDING)]); equal keys stay in insertion order.
RECURSIVE SortDescending(_)
SortDescending(q) ==
    IF q = <<>> THEN <<>>
    ELSE LET i == CHOOSE i \in 1..Len(q) :
                      /\ \A j \in 1..Len(q) : ~CellLess(q[i]["discount_percentage"], q[j]["discount_percentage"])
                      /\ \A j \in 1..(i - 1) : CellLess(q[j]["discount_percentage"], q[i]["discount_percentage"])
         IN <<q[i]>> \o SortDescending(SubSeq(q, 1, i - 1) \o SubSeq(q, i + 1, Len(q)))

GetBestDeals(d, min_discount, limit) ==
    LET IsDealAbove(doc) == IsDeal(doc, min_discount)
    IN Take(SortDescending(SelectSeq(d, IsDealAbove)), limit)

RepoStore == \E batch \in RepoBatches : CallStore(batch, "repo")

RepoUpdateEstimation(id, v) == now < MaxCalls /\ DoUpdateEstimation(id, v)

RepoUpdateOffer(id, offer) ==
    /\ now < MaxCalls
    /\ db' = UpdateListingOffer(db, id, offer, now)
    /\ ret' = Returned(0, 0, Modified(db, id))
    /\ now' = now + 1
    /\ lastOp' = "offer"
    /\ UNCHANGED <<held, procs, found, markup, elemText, mailbox>>

RepoMarkAsContacted(id) == now < MaxCalls /\ DoMarkAsContacted(id)

Query(result, op) ==
    /\ found' = result
    /\ lastOp' = op
    /\ UNCHANGED <<db, now, held, ret, procs, markup, elemText, mailbox>>

QueryUnestimated(limit) == Query(GetUnestimatedListings(db, limit), "unestimated")
QueryUnprocessed(limit) == Query(GetUnprocessedListings(db, limit), "unprocessed")
QueryBestDeals(min_discount, limit) == Query(GetBestDeals(db, min_discount, limit), "best_deals")

\* store_listings(batch) when the storage is unavailable from the k-th listing
\* on (from the start for k = 1): connect() returns False and the call returns
\* zero counts, or find_one raises for each remaining listing, which the except
\* clause of the loop logs before going on.
StoreListingsUnavailable(d, batch, t, k) ==
    LET r == StoreListings(d, SubSeq(batch, 1, k - 1), t)
    IN [db |-> r.db, batch |-> r.batch \o SubSeq(batch, k, Len(batch)),
        nb_inserts |-> r.nb_inserts, nb_updates |-> r.nb_updates]

RepoStoreUnavailable(batch, k) ==
    LET r == StoreListingsUnavailable(db, batch, now, k) IN
    /\ now < MaxCalls
    /\ db' = r.db
    /\ held' = r.batch[1]
    /\ ret' = Returned(r.nb_inserts, r.nb_updates, TRUE)
    /\ now' = now + 1
    /\ lastOp' = "unavailable"
    /\ UNCHANGED <<procs, found, markup, elemText, mailbox>>

NextRepo ==
    \/ RepoStore
    \/ \E batch \in RepoBatches : \E k \in 1..Len(batch) : RepoStoreUnavailable(batch, k)
    \/ \E id \in DocIds, v \in RepoEstimateVals : RepoUpdateEstimation(id, v)
    \/ \E id \in DocIds, offer \in RepoOffers : RepoUpdateOffer(id, offer)
    \/ \E id \in DocIds : RepoMarkAsContacted(id)
    \/ \E limit \in Limits : QueryUnestimated(limit)
    \/ \E limit \in Limits : QueryUnprocessed(limit)
    \/ \E min_discount \in MinDiscounts, limit \in Limits : QueryBestDeals(min_discount, limit)

SpecRepo == Init /\ [][NextRepo]_vars

\* ------------------------------------------------------------- calls of calculate_offer
\* Prices and estimates calculate_offer is called with: None, 0, negative
\* numbers, and positive numbers on both sides of each tier boundary and of the floor.
OfferPrices ==
    {Null, Num(0), Num(-9000), Num(8000), Num(9000), Num(9500), Num(10000), Num(10500),
     Num(11500), Num(12000), Num(15000)} \cup {Num(x) : x \in 15..26}
OfferValues == {Null, Num(0), Num(-10000), Num(20), Num(AVG_PRICE), Num(13000)}

\* A listing as calculate_offers reads it: its price and its estimated_value.
OfferListings ==
    {[EmptyDict EXCEPT !["price"] = p, !["estimated_value"] = e] : p \in OfferPrices, e \in OfferValues}

InitOffer ==
    /\ db = <<>>
    /\ now = 0
    /\ held \in OfferListings
    /\ ret = Returned(0, 0, FALSE)
    /\ lastOp = "none"
    /\ procs = [p \in Procs |-> Idle]
    /\ found = <<>>
    /\ markup = <<>>
    /\ elemText = <<>>
    /\ mailbox = <<>>

\* calculator.calculate_offer(listing["price"], listing["estimated_value"])
CallCalculateOffer ==
    /\ lastOp = "none"
    /\ ret' = CalculateOffer(held["price"], held["estimated_value"])
    /\ lastOp' = "calculate_offer"
    /\ UNCHANGED <<db, now, held, procs, found, markup, elemText, mailbox>>

NextOffer == CallCalculateOffer

SpecOffer == InitOffer /\ [][NextOffer]_vars

\* ------------------------------------------------------------- extractor
\* A text is a sequence of characters.
DigitChars == <<"0", "1", "2", "3", "4", "5", "6", "7", "8", "9">>
IsDigit(c) == \E i \in 1..10 : DigitChars[i] = c
DigitVal(c) == (CHOOSE i \in 1..10 : DigitChars[i] = c) - 1
\* U+202F, the narrow no-break space, as one character.
NNBSP == "nnbsp"
\* What \s matches, and what str.strip() and str.split() take for white space.
Spaces == {" ", "\n", NNBSP}

RECURSIVE DropSpaces(_)
DropSpaces(text) ==
    IF text # <<>> /\ Head(text) \in Spaces THEN DropSpaces(Tail(text)) ELSE text

\* re.sub(r'\s+', ' ', text)
RECURSIVE Collapse(_)
Collapse(text) ==
    IF text = <<>> THEN <<>>
    ELSE IF Head(text) \in Spaces THEN <<" ">> \o Collapse(DropSpaces(text))
    ELSE <<Head(text)>> \o Collapse(Tail(text))

\* str.strip() of a text whose only white space is " ".
Strip1(text) ==
    LET a == IF text # <<>> /\ Head(text) = " " THEN Tail(text) ELSE text
    IN IF a # <<>> /\ a[Len(a)] = " " THEN SubSeq(a, 1, Len(a) - 1) ELSE a

\* sanitize_text(text)
SanitizeText(text) == IF text = <<>> THEN <<>> ELSE Strip1(Collapse(text))

\* The number of digits of text from position i on.
RECURSIVE DigitRun(_, _)
DigitRun(text, i) ==
    IF i <= Len(text) /\ IsDigit(text[i]) THEN 1 + DigitRun(text, i + 1) ELSE 0

\* int() of a sequence of digits, and 10 ** k.
RECURSIVE ToInt(_)
ToInt(digits) ==
    IF digits = <<>> THEN 0 ELSE 10 * ToInt(SubSeq(digits, 1, Len(digits) - 1)) + DigitVal(digits[Len(digits)])
RECURSIVE Pow10(_)
Pow10(k) == IF k = 0 THEN 1 ELSE 10 * Pow10(k - 1)

NotSpace(c) == c # " "

\* float() of the first match of \d+[\.,]?\d* in t, with "," read as ".";
\* None when t has no digit.
FirstNumber(t) ==
    IF \A i \in 1..Len(t) : ~IsDigit(t[i]) THEN Null
    ELSE LET i == CHOOSE i \in 1..Len(t) : IsDigit(t[i]) /\ \A j \in 1..(i - 1) : ~IsDigit(t[j])
             n1 == DigitRun(t, i)
             sep == i + n1 <= Len(t) /\ t[i + n1] \in {".", ","}
             n2 == IF sep THEN DigitRun(t, i + n1 + 1) ELSE 0
         IN Rat(ToInt(SubSeq(t, i, i + n1 - 1)) * Pow10(n2)
                    + ToInt(SubSeq(t, i + n1 + 1, i + n1 + n2)), Pow10(n2))

\* extract_number_from_text(text) of utils/helpers.py: the first number of the
\* text without its " ".
ExtractNumberFromText(text) == FirstNumber(SelectSeq(text, NotSpace))

\* "Prix non spécifié", the price_text of a container without a.price.
PriceNotSpecified == <<"P", "r", "i", "x", " ", "n", "o", "n", " ", "s", "p", "e", "c", "i", "f", "i", "e">>

\* The texts of a.price elements.
PriceTexts ==
    {<<" ", "9", " ", "0", "0", "0", " ", " ", "E", "\n">>,
     <<"E", " ", "1", "2", ".", "5", "0", "0", ",", "-">>}

\* A table.border-container: the href of its link, its a.price element if it
\* has one, and whether something in its extraction raises.
Containers ==
    {[url |-> u, has_price |-> TRUE, price_text |-> x, raises |-> r] :
         u \in UrlVals, x \in PriceTexts, r \in BOOLEAN}
    \cup {[url |-> u, has_price |-> FALSE, price_text |-> <<>>, raises |-> r] :
         u \in UrlVals, r \in BOOLEAN}

\* ContainerRaises when the text of a missing a.price element is read.
RaisesWithoutPrice(c) == c.raises \/ ~c.has_price

\* Whether the try block of a container ends in its except clause.
ContainerRaises(c) == c.raises

\* The listing built from a container.
ExtractListing(c) ==
    LET price_text == IF c.has_price THEN SanitizeText(c.price_text) ELSE PriceNotSpecified
    IN Listing(c.url, ExtractNumberFromText(price_text))

\* extract_car_listings(html_content): the loop over the containers.
RECURSIVE ExtractCarListings(_)
ExtractCarListings(tables) ==
    IF tables = <<>> THEN <<>>
    ELSE IF ContainerRaises(Head(tables)) THEN ExtractCarListings(Tail(tables))
    ELSE <<ExtractListing(Head(tables))>> \o ExtractCarListings(Tail(tables))

Markups == UNION {[1..n -> Containers] : n \in 0..MaxContainers}

InitExtract ==
    /\ db = <<>>
    /\ now = 0
    /\ held = EmptyDict
    /\ ret = Returned(0, 0, FALSE)
    /\ lastOp = "none"
    /\ procs = [p \in Procs |-> Idle]
    /\ found = <<>>
    /\ markup \in Markups
    /\ elemText = <<>>
    /\ mailbox = <<>>

CallExtractCarListings ==
    /\ lastOp = "none"
    /\ found' = ExtractCarListings(markup)
    /\ lastOp' = "extract"
    /\ UNCHANGED <<db, now, held, ret, procs, markup, elemText, mailbox>>

NextExtract == CallExtractCarListings

SpecExtract == InitExtract /\ [][NextExtract]_vars

\* ------------------------------------------------------------- text helpers of the extractors
\* str.strip()
RECURSIVE DropSpacesAtEnd(_)
DropSpacesAtEnd(text) ==
    IF text # <<>> /\ text[Len(text)] \in Spaces
    THEN DropSpacesAtEnd(SubSeq(text, 1, Len(text) - 1)) ELSE text
StripAll(text) == DropSpacesAtEnd(DropSpaces(text))

\* str.split(): the maximal runs of characters that are not white space.
RECURSIVE Tokens(_)
Tokens(text) ==
    LET t == DropSpaces(text) IN
    IF t = <<>> THEN <<>>
    ELSE LET n == CHOOSE n \in 1..Len(t) :
                      /\ \A j \in 1..n : t[j] \notin Spaces
                      /\ n = Len(t) \/ t[n + 1] \in Spaces
         IN <<SubSeq(t, 1, n)>> \o Tokens(SubSeq(t, n + 1, Len(t)))

\* ' '.join(parts)
RECURSIVE Join(_)
Join(parts) ==
    IF Len(parts) = 1 THEN parts[1] ELSE parts[1] \o <<" ">> \o Join(Tail(parts))

\* A str as a value.
Str(s) == [t |-> 3, s |-> s]

\* make and model from the title, as gmail_api_scraper.py derives them.
MakeModel(title) ==
    LET parts == Tokens(title) IN
    [make |-> IF title # <<>> /\ Len(parts) > 0 THEN Str(parts[1]) ELSE Null,
     model |-> IF title # <<>> /\ Len(parts) > 1
               THEN (IF Len(parts) > 2 THEN Str(Join(Tail(parts))) ELSE Str(parts[2]))
               ELSE Null]

\* make and model from the title, as email_scraper.py, gmail_oauth_scraper.py,
\* local_email_scraper.py and direct_gmail_api_final.py derive them.
MakeModelSecondPart(title) ==
    LET parts == Tokens(title) IN
    [make |-> IF title # <<>> /\ Len(parts) > 0 THEN Str(parts[1]) ELSE Null,
     model |-> IF title # <<>> /\ Len(parts) > 1 THEN Str(parts[2]) ELSE Null]

\* extract_number_from_text(text) of direct_gmail_api_final.py: the first
\* number of what is left of the text without U+202F and " " and then without
\* every character other than a digit, "." and ",".
NumberChar(c) == IsDigit(c) \/ c \in {".", ","}
ExtractNumberDirect(text) == FirstNumber(SelectSeq(text, NumberChar))

\* The number of white space characters of text from position i on.
RECURSIVE SpaceRun(_, _)
SpaceRun(text, i) ==
    IF i <= Len(text) /\ text[i] \in Spaces THEN 1 + SpaceRun(text, i + 1) ELSE 0

\* \s*km matches at position j of the text.
KmAt(t, j) ==
    LET k == j + SpaceRun(t, j) IN k + 1 <= Len(t) /\ t[k] = "k" /\ t[k + 1] = "m"

\* The group of (\d+[seps]?\d*) at position i: the digits, one separator if
\* there is one, the digits after it.  Giving characters back changes neither
\* whether \s*km follows nor the digits of the group.
GroupEnd(t, i, seps) ==
    LET n1 == DigitRun(t, i)
        sep == i + n1 <= Len(t) /\ t[i + n1] \in seps
    IN IF sep THEN i + n1 + 1 + DigitRun(t, i + n1 + 1) ELSE i + n1

\* re.search(r'(\d+[seps]?\d*)\s*km', t) finds a match starting at position i.
MileageAt(t, i, seps) == IsDigit(t[i]) /\ KmAt(t, GroupEnd(t, i, seps))

\* group(1) of the leftmost match, or <<>> when there is none.
MileageGroup(t, seps) ==
    IF \E i \in 1..Len(t) : MileageAt(t, i, seps)
    THEN LET i == CHOOSE i \in 1..Len(t) :
                      MileageAt(t, i, seps) /\ \A j \in 1..(i - 1) : ~MileageAt(t, j, seps)
         IN SubSeq(t, i, GroupEnd(t, i, seps) - 1)
    ELSE <<>>

\* int() of something that is not a whole number.
ValueError == [t |-> 4, n |-> 0, d |-> 1]

NotSpaceNorPeriod(c) == c \notin {" ", "."}

\* The mileage of a details text, as the scrapers/ modules extract it:
\* sanitize_text, (\d+[\s.]?\d*)\s*km, int() of the group without " " and ".".
MileageScraper(text) ==
    LET group == MileageGroup(SanitizeText(text), Spaces \cup {"."})
        mileage_str == SelectSeq(group, NotSpaceNorPeriod)
    IN IF group = <<>> THEN Null
       ELSE IF \A j \in 1..Len(mileage_str) : IsDigit(mileage_str[j]) THEN Num(ToInt(mileage_str))
       ELSE ValueError

\* The mileage of a details text, as direct_gmail_api_final.py extracts it:
\* strip(), (\d+[\s ]?\d*)\s*km, extract_number_from_text of the group.
MileageDirect(text) ==
    LET group == MileageGroup(StripAll(text), Spaces)
    IN IF group = <<>> THEN Null ELSE ExtractNumberDirect(group)

\* The texts of a.small-details elements.
DetailsTexts ==
    {<<"1", "1", "6", " ", "2", "0", "0", " ", "k", "m">>,
     <<"1", "1", "6", ".", "2", "0", "0", " ", "k", "m">>,
     <<"1", "1", "6", NNBSP, "2", "0", "0", " ", "k", "m">>,
     <<"1", "1", "6", "2", "0", "0", " ", "k", "m">>,
     <<"\n", " ", "1", "1", "6", " ", "2", "0", "0", " ", "k", "m", ",", "\n", "7", "5", " ", "k", "W", "\n">>,
     <<"1", "1", "6", NNBSP, "2", "0", "0", NNBSP, "k", "m">>,
     <<"0", "3", "/", "2", "0", "1", "8">>,
     <<"5", " ", "k", "m">>,
     <<"1", "1", "6", ",", "2", "0", "0", " ", "k", "m">>}

\* Texts with one number, or none.
NumberTexts ==
    {<<"1", "2", " ", "2", "5", "0">>,
     <<"1", "2", ".", "2", "5", "0">>,
     <<"1", "2", NNBSP, "2", "5", "0">>,
     <<"1", "2", "2", "5", "0">>,
     <<"1", "2", ",", "5">>,
     <<"E", " ", "1", "2", " ", "2", "5", "0", ",", "-">>,
     <<"E">>}

\* The texts of title links.
TitleTexts ==
    {<<"V", "W">>,
     <<"V", "W", " ", "G", "o", "l", "f">>,
     <<"V", "W", " ", "G", "o", "l", "f", " ", "G", "T", "I">>,
     <<" ", "V", "W", " ", " ", "G", "o", "l", "f", " ", "G", "T", "I", "\n", " ", "T", "D", "I", "\n">>,
     <<"A", NNBSP, "B", " ", "C">>}

ElemTexts == DetailsTexts \cup NumberTexts \cup TitleTexts \cup {<<>>}

InitText ==
    /\ db = <<>>
    /\ now = 0
    /\ held = EmptyDict
    /\ ret = Returned(0, 0, FALSE)
    /\ lastOp = "none"
    /\ procs = [p \in Procs |-> Idle]
    /\ found = <<>>
    /\ markup = <<>>
    /\ elemText \in ElemTexts
    /\ mailbox = <<>>

\* One helper applied to the text: ret is what it yields.
Parse(value, op) ==
    /\ lastOp = "none"
    /\ ret' = value
    /\ lastOp' = op
    /\ UNCHANGED <<db, now, held, procs, found, markup, elemText, mailbox>>

CallExtractNumber == Parse(ExtractNumberFromText(elemText), "number")
CallExtractNumberDirect == Parse(ExtractNumberDirect(elemText), "number_direct")
CallMileageScraper == Parse(MileageScraper(elemText), "mileage")
CallMileageDirect == Parse(MileageDirect(elemText), "mileage_direct")
CallMakeModel == Parse(MakeModel(SanitizeText(elemText)), "make_model")
CallMakeModelSecondPart == Parse(MakeModelSecondPart(SanitizeText(elemText)), "make_model_scrapers")
CallMakeModelDirect == Parse(MakeModelSecondPart(StripAll(elemText)), "make_model_direct")

NextText ==
    \/ CallExtractNumber
    \/ CallExtractNumberDirect
    \/ CallMileageScraper
    \/ CallMileageDirect
    \/ CallMakeModel
    \/ CallMakeModelSecondPart
    \/ CallMakeModelDirect

SpecText == InitText /\ [][NextText]_vars

\* ------------------------------------------------------------- repeated runs of estimate_car_values
\* The listing of a title of one token: make is the token, model is None.
ModellessListing(u, p) == [Listing(u, p) EXCEPT !["model"] = Null]

\* The lists of up to MaxRecords listings with the urls 1, 2, ..., each with or
\* without a model.
EstimateBatches ==
    UNION {{[i \in 1..n |-> IF i \in named THEN Listing(Num(i), Num(9000))
                                         ELSE ModellessListing(Num(i), Num(9000))] :
               named \in SUBSET (1..n)} : n \in 0..MaxRecords}

\* The repository after one store_listings call.
InitEstimate ==
    /\ db \in {StoreListings(<<>>, batch, 0).db : batch \in EstimateBatches}
    /\ now = 1
    /\ held = EmptyDict
    /\ ret = Returned(0, 0, FALSE)
    /\ lastOp = "none"
    /\ procs = [p \in Procs |-> Idle]
    /\ found = <<>>
    /\ markup = <<>>
    /\ elemText = <<>>
    /\ mailbox = <<>>

\* The loop of estimate_car_values with an estimator that succeeds every time
\* it is called: listings without make or model are skipped.
RECURSIVE EstimateEach(_, _, _)
EstimateEach(d, listings, t) ==
    IF listings = <<>> THEN d
    ELSE EstimateEach(IF HasMakeModel(Head(listings))
                      THEN UpdateListingEstimation(d, Head(listings)["id"], Num(AVG_PRICE), t)
                      ELSE d,
                      Tail(listings), t)

\* estimate_car_values(db, limit), the whole run.  The clock stops at MaxCalls,
\* the runs do not.
RunEstimateCarValues ==
    /\ db' = EstimateEach(db, GetUnestimatedListings(db, ESTIMATES_LIMIT), now)
    /\ now' = Min(now + 1, MaxCalls)
    /\ lastOp' = "estimate_car_values"
    /\ UNCHANGED <<held, ret, procs, found, markup, elemText, mailbox>>

NextEstimate == RunEstimateCarValues

\* estimate_car_values is run again and again.
SpecEstimate == InitEstimate /\ [][NextEstimate]_vars /\ WF_vars(RunEstimateCarValues)

\* ------------------------------------------------------------- repeated runs of calculate_offers
\* The listing of a container without a price element.
UnpricedListing(u) == Listing(u, Null)

\* Lists of listings with the urls 1, 2, ...: first those without a price, then
\* those with one.
OfferBatches ==
    {[i \in 1..(n + m) |-> IF i <= n THEN UnpricedListing(Num(i)) ELSE Listing(Num(i), Num(12000))] :
         n \in 0..MaxUnpriced, m \in 0..MaxPriced}

\* The repository after one store_listings call and the runs of
\* estimate_car_values that gave every record its estimate: the documents as
\* the insert branch and update_listing_estimation leave them.
EstimatedRepo(batch) ==
    [i \in 1..Len(batch) |->
        SetFields([InsertPrep(batch[i], 0) EXCEPT !["id"] = Num(i)],
                  [EmptyDict EXCEPT !["estimated_value"] = Num(AVG_PRICE), !["updated_at"] = Num(1)])]

InitOffers ==
    /\ db \in {EstimatedRepo(batch) : batch \in OfferBatches}
    /\ now = 2
    /\ held = EmptyDict
    /\ ret = Returned(0, 0, FALSE)
    /\ lastOp = "none"
    /\ procs = [p \in Procs |-> Idle]
    /\ found = <<>>
    /\ markup = <<>>
    /\ elemText = <<>>
    /\ mailbox = <<>>

\* The offer calculate_offers computes for a listing.
OfferFor(listing) == CalculateOffer(Get(listing["price"]), Get(listing["estimated_value"]))

\* The loop of calculate_offers: the offer of a listing is written to the
\* document with its _id when suggested_offer is truthy.  No two documents have
\* the same _id, so each document is written at most once.
OfferEach(d, listings, t) ==
    [i \in 1..Len(d) |->
        IF \E j \in 1..Len(listings) :
               listings[j]["id"] = d[i]["id"] /\ Truthy(OfferFor(listings[j]).suggested_offer)
        THEN LET listing == listings[CHOOSE j \in 1..Len(listings) : listings[j]["id"] = d[i]["id"]]
             IN UpdateListingOffer(<<d[i]>>, listing["id"], OfferFor(listing), t)[1]
        ELSE d[i]]

\* calculate_offers(db), the whole run.  The clock stops at MaxCalls, the runs
\* do not.
RunCalculateOffers ==
    /\ \E listings \in {GetUnprocessedListings(db, UNPROCESSED_LIMIT)} :
           db' = OfferEach(db, listings, now)
    /\ now' = Min(now + 1, MaxCalls)
    /\ lastOp' = "calculate_offers"
    /\ UNCHANGED <<held, ret, procs, found, markup, elemText, mailbox>>

NextOffers == RunCalculateOffers

\* calculate_offers is run again and again.
SpecOffers == InitOffers /\ [][NextOffers]_vars /\ WF_vars(RunCalculateOffers)

\* ------------------------------------------------------------- scrape_emails
Mails == 1..MaxMails

\* The HTML of a mail: no container, or one.
MailMarkups == {m \in Markups : Len(m) <= 1}

InitMail ==
    /\ db = <<>>
    /\ now = 0
    /\ held = EmptyDict
    /\ ret = Returned(0, 0, FALSE)
    /\ lastOp = "none"
    /\ procs = [p \in Procs |-> Idle]
    /\ found = <<>>
    /\ markup = <<>>
    /\ elemText = <<>>
    /\ mailbox \in [Mails -> {[unread |-> TRUE, html |-> h] : h \in MailMarkups}]

\* The mails fetch_autoscout_emails returns with unread_only: the unread ones.
RECURSIVE UnreadFrom(_)
UnreadFrom(m) ==
    IF m > MaxMails THEN <<>>
    ELSE (IF mailbox[m].unread THEN <<m>> ELSE <<>>) \o UnreadFrom(m + 1)

\* scrape_emails starts: process_emails fetches the mails.  Without a mail it
\* returns no listing and scrape_emails returns 0.
FetchEmails ==
    LET me == procs[1]
        emails == UnreadFrom(1)
    IN /\ me.pc = "idle"
       /\ now < MaxCalls
       /\ Set(1, [Idle EXCEPT !.pc = IF emails = <<>> THEN "idle" ELSE "email",
                              !.todo = emails, !.pos = 1])
       /\ now' = now + 1
       /\ lastOp' = "fetch_emails"
       /\ UNCHANGED <<db, held, ret, found, markup, elemText, mailbox>>

\* process_emails, one mail: with its content the listings are extracted and the
\* mail is marked as read (the request succeeds or fails); without, nothing.
ProcessEmail(content, marked) ==
    LET me == procs[1]
        m == me.todo[me.pos]
    IN /\ me.pc = "email"
       /\ Set(1, [me EXCEPT !.pc = IF me.pos = Len(me.todo) THEN "store" ELSE "email",
                            !.pos = me.pos + 1,
                            !.batch = IF content THEN @ \o ExtractCarListings(mailbox[m].html) ELSE @])
       /\ mailbox' = IF content /\ marked THEN [mailbox EXCEPT ![m].unread = FALSE] ELSE mailbox
       /\ lastOp' = "process_email"
       /\ UNCHANGED <<db, now, held, ret, found, markup, elemText>>

\* scrape_emails after process_emails: without a listing it returns 0; with
\* listings it calls store_listings, which stores them or, when connect()
\* fails, returns zero counts.
StoreExtracted(reachable) ==
    LET me == procs[1]
        r == StoreListings(db, me.batch, now)
    IN /\ me.pc = "store"
       /\ db' = IF me.batch # <<>> /\ reachable THEN r.db ELSE db
       /\ ret' = IF me.batch # <<>> /\ reachable
                 THEN Returned(r.nb_inserts, r.nb_updates, TRUE) ELSE Returned(0, 0, TRUE)
       /\ Set(1, [me EXCEPT !.pc = "idle"])
       /\ lastOp' = "scrape_emails"
       /\ UNCHANGED <<now, held, found, markup, elemText, mailbox>>

NextMail ==
    \/ FetchEmails
    \/ \E content, marked \in BOOLEAN : ProcessEmail(content, marked)
    \/ \E reachable \in BOOLEAN : StoreExtracted(reachable)

SpecMail == InitMail /\ [][NextMail]_vars

\* ------------------------------------------------------------- mails with containers without a "Détails" link
\* listing_url of a container: the href of its "Détails" link, None without one.
LinkVals == {Null, Num(1)}

\* Containers with or without a "Détails" link, each with an a.price element.
LinklessContainers ==
    {[url |-> u, has_price |-> TRUE, price_text |-> x, raises |-> FALSE] :
         u \in LinkVals, x \in PriceTexts}

\* The HTML of the mails: one container or two.
LinklessMarkups == UNION {[1..n -> LinklessContainers] : n \in 1..2}

\* scrape_emails with one mail, storage reachable: the listings of the mail are
\* extracted and stored.
ScrapeLinkless ==
    \E m \in LinklessMarkups :
        /\ markup' = m
        /\ found' = ExtractCarListings(m)
        /\ LET r == StoreListings(db, ExtractCarListings(m), now) IN
           /\ now < MaxCalls
           /\ db' = r.db
           /\ held' = r.batch[1]
           /\ ret' = Returned(r.nb_inserts, r.nb_updates, TRUE)
           /\ now' = now + 1
           /\ lastOp' = "scrape_emails"
           /\ UNCHANGED <<procs, elemText, mailbox>>

NextLinkless == ScrapeLinkless

SpecLinkless == Init /\ [][NextLinkless]_vars

\* ------------------------------------------------------------- query claims
NoEstimate(doc) == doc["estimated_value"].t # 2
NoOffer(doc) == doc["suggested_offer"].t # 2

\* C11: get_unestimated_listings(limit) returns at most limit records, each
\* without a non-null estimated_value, and leaves out a record whose
\* estimated_value is null (key missing, or present with None) only when it
\* already returns limit records.
C11_UnestimatedQuery ==
    [][\A limit \in Limits :
          QueryUnestimated(limit) =>
              /\ Len(found') <= limit
              /\ \A i \in 1..Len(found') : NoEstimate(found'[i])
              /\ Len(found') = Min(limit, Len(SelectSeq(db, NoEstimate)))]_vars

\* C12: get_unprocessed_listings(limit) returns at most limit records, all of
\* them persisted records with a non-null estimated_value and no non-null
\* suggested_offer.
C12_UnprocessedQuery ==
    [][\A limit \in Limits :
          QueryUnprocessed(limit) =>
              /\ Len(found') <= limit
              /\ \A i \in 1..Len(found') :
                     /\ ~NoEstimate(found'[i])
                     /\ NoOffer(found'[i])
                     /\ \E j \in 1..Len(db) : db[j] = found'[i]]_vars

\* The query returned one record where two qualify, next to none.
C12_Witness ==
    /\ lastOp = "unprocessed"
    /\ Len(found) = 1
    /\ Len(SelectSeq(db, Unprocessed)) = 2

\* C13: get_best_deals(min_discount, limit) returns distinct persisted records
\* with discount_percentage >= min_discount and contacted = False, in
\* non-increasing order of discount_percentage, as many as qualify up to limit,
\* none of them with a lower discount_percentage than a qualifying record left
\* out; and no call resets a contacted flag that is True, so that a record
\* marked as contacted is not returned again.
C13_BestDeals ==
    [][/\ \A min_discount \in MinDiscounts, limit \in Limits :
              QueryBestDeals(min_discount, limit) =>
                  LET Qualifies(doc) == IsDeal(doc, min_discount) IN
                  /\ Len(found') = Min(limit, Len(SelectSeq(db, Qualifies)))
                  /\ \A i \in 1..Len(found') :
                         /\ \E j \in 1..Len(db) : db[j] = found'[i]
                         /\ CellGte(found'[i]["discount_percentage"], min_discount)
                         /\ found'[i]["contacted"] = PyFalse
                         /\ \A j \in 1..Len(found') :
                                /\ i < j => ~CellLess(found'[i]["discount_percentage"], found'[j]["discount_percentage"])
                                /\ i # j => found'[i]["id"] # found'[j]["id"]
                         /\ \A j \in 1..Len(db) :
                                (Qualifies(db[j]) /\ \A k \in 1..Len(found') : found'[k] # db[j]) =>
                                    ~CellLess(found'[i]["discount_percentage"], db[j]["discount_percentage"])
       /\ \A i \in 1..Len(db) :
              db[i]["contacted"] = PyTrue =>
                  /\ Len(db') >= i
                  /\ db'[i]["id"] = db[i]["id"]
                  /\ db'[i]["contacted"] = PyTrue]_vars

\* A record with a discount of 10 or more was marked as contacted and then
\* stored again; the query returned the other record only.
C13_Witness ==
    /\ lastOp = "best_deals"
    /\ Len(found) = 1
    /\ \E i \in 1..Len(db) :
           /\ db[i]["contacted"] = PyTrue
           /\ CellGte(db[i]["discount_percentage"], 10)
           /\ db[i]["contact_date"].t = 2
           /\ db[i]["updated_at"].n > db[i]["contact_date"].n
           /\ found[1]["id"] # db[i]["id"]

\* ------------------------------------------------------------- targeted update claims
\* From d to e only the keys `keys` of the document id changed.
OnlyWrites(d, e, id, keys) ==
    /\ Len(e) = Len(d)
    /\ \A i \in 1..Len(d) :
           IF d[i]["id"] = id THEN \A k \in Keys \ keys : e[i][k] = d[i][k] ELSE e[i] = d[i]

\* C14 as stated: each targeted update writes its target fields only, and a
\* second application with the same input changes nothing.
C14_TargetedIdempotent ==
    [][/\ \A id \in DocIds, v \in RepoEstimateVals :
              RepoUpdateEstimation(id, v) =>
                  /\ OnlyWrites(db, db', id, {"estimated_value"})
                  /\ UpdateListingEstimation(db', id, v, now') = db'
       /\ \A id \in DocIds, offer \in RepoOffers :
              RepoUpdateOffer(id, offer) =>
                  /\ OnlyWrites(db, db', id, {"suggested_offer", "discount_percentage"})
                  /\ UpdateListingOffer(db', id, offer, now') = db'
       /\ \A id \in DocIds :
              RepoMarkAsContacted(id) =>
                  /\ OnlyWrites(db, db', id, {"contacted"})
                  /\ MarkAsContacted(db', id, now') = db']_vars

\* C14, amended: each targeted update writes its target fields and the
\* timestamp it stamps (updated_at; contact_date for mark_as_contacted), and a
\* second application with the same input changes that timestamp only.
C14_TargetedIdempotentButStamp ==
    [][/\ \A id \in DocIds, v \in RepoEstimateVals :
              RepoUpdateEstimation(id, v) =>
                  /\ OnlyWrites(db, db', id, {"estimated_value", "updated_at"})
                  /\ \A i \in 1..Len(db) : db[i]["id"] = id => db'[i]["estimated_value"] = v
                  /\ OnlyWrites(db', UpdateListingEstimation(db', id, v, now'), id, {"updated_at"})
       /\ \A id \in DocIds, offer \in RepoOffers :
              RepoUpdateOffer(id, offer) =>
                  /\ OnlyWrites(db, db', id, {"suggested_offer", "discount_percentage", "updated_at"})
                  /\ \A i \in 1..Len(db) :
                         db[i]["id"] = id => /\ db'[i]["suggested_offer"] = offer.suggested_offer
                                             /\ db'[i]["discount_percentage"] = offer.discount_percentage
                  /\ OnlyWrites(db', UpdateListingOffer(db', id, offer, now'), id, {"updated_at"})
       /\ \A id \in DocIds :
              RepoMarkAsContacted(id) =>
                  /\ OnlyWrites(db, db', id, {"contacted", "contact_date"})
                  /\ \A i \in 1..Len(db) : db[i]["id"] = id => db'[i]["contacted"] = PyTrue
                  /\ OnlyWrites(db', MarkAsContacted(db', id, now'), id, {"contact_date"})]_vars

\* The only record was stored, then marked as contacted twice.
C14_Witness ==
    /\ lastOp = "contacted"
    /\ now = 3
    /\ Len(db) = 1
    /\ db[1]["contacted"] = PyTrue
    /\ db[1]["contact_date"] = Num(2)
    /\ db[1]["updated_at"] = Num(0)
    /\ db[1]["estimated_value"].t = 0

\* ------------------------------------------------------------- failure claims
\* C15: a store_listings call that finds the storage unavailable, at once or
\* part-way through its list, persists nothing and returns something else
\* than a store of an empty list returns.
C15_StorageUnavailable ==
    [][\A batch \in RepoBatches : \A k \in 1..Len(batch) :
          RepoStoreUnavailable(batch, k) =>
              /\ db' = db
              /\ ret' # Returned(StoreListings(db, <<>>, now).nb_inserts,
                                 StoreListings(db, <<>>, now).nb_updates, TRUE)]_vars

\* C16: a run leaves none of its loops before the last record of the list the
\* loop goes through: one that stopped on an exception had no record left in
\* store_listings, estimate_car_values or calculate_offers.
C16_SiblingIsolation ==
    \A p \in Procs :
        procs[p].pc = "raised" =>
            /\ procs[p].idx = Len(procs[p].batch) + 1
            /\ procs[p].pos >= Len(procs[p].todo)

\* ------------------------------------------------------------- offer claims
Calculated == lastOp = "calculate_offer"
Missing(c) == c.t # 2 \/ c.n <= 0

\* C17: when the price or the estimate is missing, zero or negative,
\* calculate_offer returns the null offer.
C17_NullOffer ==
    (Calculated /\ (Missing(held["price"]) \/ Missing(held["estimated_value"]))) =>
        /\ ret = NullOffer
        /\ ret.suggested_offer.t # 2

Positive(c) == c.t = 2 /\ c.n > 0

\* C18: for a positive price p and estimate e, with position = (p - e) / e * 100:
\* position > 15 is strongly overpriced with min(25, max_discount);
\* 5 < position <= 15 is overpriced with min(15, max_discount);
\* -5 <= position <= 5 is at market with min_discount;
\* position < -5 is underpriced with max(5, min_discount / 2).
C18_TierSelection ==
    (Calculated /\ Positive(held["price"]) /\ Positive(held["estimated_value"])) =>
        LET p == held["price"].n
            e == held["estimated_value"].n
            position100 == (p - e) * 100
            expected ==
                IF position100 > 15 * e
                THEN [strategy |-> "Forte remise", pct |-> Min(25, MAX_DISCOUNT_PERCENTAGE)]
                ELSE IF position100 > 5 * e
                THEN [strategy |-> "Remise moyenne", pct |-> Min(15, MAX_DISCOUNT_PERCENTAGE)]
                ELSE IF position100 >= -5 * e
                THEN [strategy |-> "Remise standard", pct |-> MIN_DISCOUNT_PERCENTAGE]
                ELSE [strategy |-> "Remise minimale", pct |-> Max(5, MIN_DISCOUNT_PERCENTAGE \div 2)]
        IN /\ ret.strategy = expected.strategy
           /\ Tier(p, e) = expected

\* C19: for a positive price p and estimate e the suggested offer is at least
\* floor(e * 0.9); when the offer of the tier is below that floor, the
\* suggested offer is the floor, discount_amount is p minus it and
\* discount_percentage is discount_amount / p * 100, also when the offer then
\* exceeds p: calculate_offer(8000, 10000) suggests 9000.
C19_FloorClamp ==
    (Calculated /\ Positive(held["price"]) /\ Positive(held["estimated_value"])) =>
        LET p == held["price"].n
            e == held["estimated_value"].n
            floor == (e * 9) \div 10
            tier_offer == p - Trunc(p * Tier(p, e).pct, 100)
        IN /\ ret.suggested_offer.t = 2
           /\ ret.suggested_offer.d = 1
           /\ ret.suggested_offer.n >= floor
           /\ tier_offer < floor =>
                  /\ ret.suggested_offer = Num(floor)
                  /\ ret.discount_amount = Num(p - floor)
                  /\ ret.discount_percentage = Rat((p - floor) * 100, p)
           /\ (p = 8000 /\ e = 10000) => ret.suggested_offer = Num(9000)

\* calculate_offer(8000, 10000) returned 9000, above the price, with a discount
\* of -1000, that is -12.5 %.
C19_Witness ==
    /\ Calculated
    /\ held["price"] = Num(8000)
    /\ held["estimated_value"] = Num(AVG_PRICE)
    /\ ret.suggested_offer = Num(9000)
    /\ ret.discount_amount = Num(-1000)
    /\ ret.discount_percentage = [t |-> 2, n |-> -25, d |-> 2]

\* C22: for a positive price p and estimate e for which the offer of the
\* selected tier is not below floor(e * 0.9), discount_percentage is the
\* discount of that tier, discount_amount is floor(p * discount / 100) and
\* suggested_offer is p - discount_amount; (15000, 13000) gives 20, 3000 and
\* 12000, and (10000, 10000) gives 10, 1000 and 9000.
C22_UnclampedArithmetic ==
    (Calculated /\ Positive(held["price"]) /\ Positive(held["estimated_value"])) =>
        LET p == held["price"].n
            e == held["estimated_value"].n
            pct == Tier(p, e).pct
            Gives(discount, amount, offer) ==
                /\ ret.discount_percentage = Num(discount)
                /\ ret.discount_amount = Num(amount)
                /\ ret.suggested_offer = Num(offer)
        IN /\ p - (p * pct) \div 100 >= (e * 9) \div 10 =>
                  Gives(pct, (p * pct) \div 100, p - (p * pct) \div 100)
           /\ (p = 15000 /\ e = 13000) => Gives(20, 3000, 12000)
           /\ (p = 10000 /\ e = 10000) => Gives(10, 1000, 9000)

\* calculate_offer(21, 20): 10 % of 21 is 2.1, the discount is 2 and the offer
\* 19, above the floor of 18.
C22_Witness ==
    /\ Calculated
    /\ held["price"] = Num(21)
    /\ held["estimated_value"] = Num(20)
    /\ ret.discount_percentage = Num(10)
    /\ ret.discount_amount = Num(2)
    /\ ret.suggested_offer = Num(19)

\* ------------------------------------------------------------- extractor claims
\* The positions in the markup of the containers whose extraction does not raise.
Kept == {i \in 1..Len(markup) : ~markup[i].raises}
\* The position in the result of the listing of the kept container i.
Rank(i) == Cardinality({j \in Kept : j <= i})

\* C20: extract_car_listings returns one listing for every container whose
\* extraction does not raise, in document order, and none for the others; the
\* listing of a container without a price element has price None.
C20_MalformedContainers ==
    lastOp = "extract" =>
        /\ Len(found) = Cardinality(Kept)
        /\ \A i \in Kept :
               /\ found[Rank(i)]["url"] = markup[i].url
               /\ (~markup[i].has_price) => found[Rank(i)]["price"] = Null
               /\ markup[i].has_price => found[Rank(i)]["price"].t = 2

\* Of three containers the first raised and the second had no price element:
\* two listings, the first with price None, the second with its price.
C20_Witness ==
    /\ lastOp = "extract"
    /\ Len(markup) = 3
    /\ markup[1].raises
    /\ ~markup[2].raises /\ ~markup[2].has_price
    /\ ~markup[3].raises /\ markup[3].has_price /\ markup[3].url # markup[2].url
    /\ Len(found) = 2
    /\ found[1]["url"] = markup[2].url /\ found[1]["price"] = Null
    /\ found[2]["url"] = markup[3].url /\ found[2]["price"] = Num(9000)

\* ------------------------------------------------------------- text claims
\* The details texts that hold 116200 km written with " ", "." or U+202F between
\* the thousands.
ThousandsMileageTexts ==
    {x \in DetailsTexts :
        \E i \in 1..(Len(x) - 6) :
            /\ SubSeq(x, i, i + 2) = <<"1", "1", "6">>
            /\ x[i + 3] \in {" ", ".", NNBSP}
            /\ SubSeq(x, i + 4, i + 6) = <<"2", "0", "0">>}

\* C21: a details text whose mileage is written with a plain space, a period
\* or a narrow no-break space between the thousands gives mileage 116200 in
\* every extractor, none of which raises on it.
C21_LocaleMileage ==
    (lastOp \in {"mileage", "mileage_direct"} /\ elemText \in ThousandsMileageTexts) =>
        ret = Num(116200)

MakeModelOps == {"make_model", "make_model_scrapers", "make_model_direct"}

\* C24: with the title split on white space, every extractor sets make to the
\* first token; model is the second token of a title of two tokens, all the
\* tokens after the first joined with single spaces for a title of more than
\* two, and None for a title of one token.
C24_MakeModel ==
    lastOp \in MakeModelOps =>
        LET parts == Tokens(elemText) IN
        /\ Len(parts) >= 1 => ret.make = Str(parts[1])
        /\ Len(parts) = 1 => ret.model = Null
        /\ Len(parts) = 2 => ret.model = Str(parts[2])
        /\ Len(parts) > 2 => ret.model = Str(Join(Tail(parts)))

\* The number texts that hold 12250 written with " ", "." or U+202F between the
\* thousands.
ThousandsNumberTexts ==
    {x \in NumberTexts :
        \E i \in 1..(Len(x) - 5) :
            /\ SubSeq(x, i, i + 1) = <<"1", "2">>
            /\ x[i + 2] \in {" ", ".", NNBSP}
            /\ SubSeq(x, i + 3, i + 5) = <<"2", "5", "0">>}

\* C25: extract_number_from_text returns None for a text without a digit, the
\* whole number 12250 for a text that holds it written with a plain space, a
\* period or a narrow no-break space between the thousands, and reads a comma
\* as the decimal point.
C25_NumberFromText ==
    lastOp \in {"number", "number_direct"} =>
        /\ (\A i \in 1..Len(elemText) : ~IsDigit(elemText[i])) => ret = Null
        /\ elemText \in ThousandsNumberTexts => ret = Num(12250)
        /\ elemText = <<"1", "2", ",", "5">> => ret = Rat(25, 2)

\* ------------------------------------------------------------- pipeline claims
\* The numeric fields of a record (mileage and year are raw fields stored as
\* price is).
NumericKeys == {"price", "estimated_value", "suggested_offer", "discount_percentage"}

\* C23: every numeric field of every persisted record is null or at least 0.
C23_NumericNonNegative ==
    \A i \in 1..Len(db) : \A k \in NumericKeys :
        IsNull(Get(db[i][k])) \/ db[i][k].n >= 0

\* C29: every persisted record with a suggested offer holds the suggested_offer
\* and the discount_percentage that calculate_offer returns for the price and
\* the estimated_value the record holds now.
C29_OfferConsistency ==
    \A i \in 1..Len(db) :
        ~IsNull(Get(db[i]["suggested_offer"])) =>
            LET offer == CalculateOffer(Get(db[i]["price"]), Get(db[i]["estimated_value"])) IN
            /\ db[i]["suggested_offer"] = offer.suggested_offer
            /\ db[i]["discount_percentage"] = offer.discount_percentage

Estimated(doc) == ~IsNull(Get(doc["estimated_value"]))

\* C26: when estimate_car_values is run again and again with an estimator that
\* succeeds, every persisted record with a make and a model eventually has an
\* estimated_value, whatever the number of unestimated records without make or
\* model.
C26_EstimationProgress ==
    <>(\A i \in 1..Len(db) : HasMakeModel(db[i]) => Estimated(db[i]))

\* C27: when calculate_offers is run again and again, every persisted record
\* with a positive price and a positive estimated_value eventually has a
\* suggested_offer, whatever the number of records with an estimate and no price.
C27_OfferProgress ==
    <>(\A i \in 1..Len(db) :
           (Positive(Get(db[i]["price"])) /\ Positive(Get(db[i]["estimated_value"])))
               => ~IsNull(Get(db[i]["suggested_offer"])))

\* The listings of the mail m are all persisted.
MailPersisted(m) ==
    LET listings == ExtractCarListings(mailbox[m].html) IN
    \A j \in 1..Len(listings) : FindOne(db, Get(listings[j]["url"])) # NoDoc

\* C28: a mail is marked as read only when every listing extracted from it is
\* persisted: at no point of a run, its end included, is a mail read while a
\* listing of it is not in the repository.
C28_ReadAfterStored ==
    \A m \in Mails : ~mailbox[m].unread => MailPersisted(m)

\* ------------------------------------------------------------- overwrite claims
\* The raw fields of the persisted record i change in the step.
RawChanged(i) == \E k \in RawKeys : db'[i][k] # db[i][k]

\* C30: store_listings changes the raw fields of a persisted record only when
\* the record has a non-null url (the one of the incoming listing): a record
\* without url is never overwritten by another listing without url.
C30_NoOverwriteWithoutUrl ==
    [][\A i \in 1..Len(db) : RawChanged(i) => ~IsNull(Get(db[i]["url"]))]_vars

====
